---- MODULE Spec2Model ----
(***************************************************************************)
(* Bill-splitting engine of polarsou: one session held in the local store  *)
(* (participants, bill items), BillCalculator.calculateSession over it and *)
(* the settlement loop of generatePaymentInstructions; the configuration   *)
(* of the shared defaultCalculator; MalaysianTaxCalculator.                *)
(*                                                                         *)
(* Money is exact decimal fixed point: one unit is 1/100 sen (RM 0.0001),  *)
(* so that the unrounded SST the store keeps (amount * 0.06) is exact.     *)
(* Participant ids are 1, 2, 3, ... in the order participants are added.   *)
(***************************************************************************)
EXTENDS Integers, Sequences, FiniteSets

VARIABLES participants, items, taxConfig, balances, summary, calls, pc,
          debtors, creditors, instructions,
          taxItems, breakdown, rounding,
          serviceType, storedSessions, storedParticipants, storedItems,
          storedPaymentMethods, nextId, response,
          pageSession, addCalls,
          user, sessionName, createCalls, navigatedTo, showAuthModal, homeToast,
          loading, inFlight,
          payment

\* the tax calculator's side: the items handed to calculateTaxes, the
\* TaxBreakdown it returned, and the last applyMalaysianRounding calls
taxVars == <<taxItems, breakdown, rounding>>

\* the persistence service: which one the selector exported, the records it
\* holds (localStorage arrays or database tables), the id generator, and
\* what the last getById / delete / getByUser call came back with
storeVars ==
    <<serviceType, storedSessions, storedParticipants, storedItems,
      storedPaymentMethods, nextId, response>>

\* SessionPage: its `session` state and the itemService.add calls it issued
pageVars == <<pageSession, addCalls>>

\* HomePage: the signed-in user, the bill name typed, the
\* sessionService.create calls issued, the route navigated to, whether the
\* sign-in dialog is open and the last toast raised
homeVars == <<user, sessionName, createCalls, navigatedTo, showAuthModal, homeToast>>

\* AuthProvider: the loading flag and the auth calls still awaited
authVars == <<loading, inFlight>>

\* what calculatePaymentInstructions returned, once it has been called
payVars == <<payment>>

sessionVars ==
    <<participants, items, taxConfig, balances, summary, calls, pc,
      debtors, creditors, instructions>>

appVars == <<storeVars, pageVars, homeVars, authVars, payVars>>

vars == <<participants, items, taxConfig, balances, summary, calls, pc,
          debtors, creditors, instructions, taxVars, appVars>>

\* ------------------------------------------------------------------ bounds
MaxParticipants == 3

MaxItems == 2

MaxBalances == 5

MaxNet == 3

EngineParticipants == 2

EngineItems == 1

MaxCalls == 2

MaxTaxItems == 2

MaxRoundingSen == 30

MaxSessions == 2

MaxStoredParticipants == 2

MaxStoredItems == 2

MaxIds == 5
\* auth calls awaited at the same time, and the accounts that can sign in
MaxInFlight == 3
MaxUsers == 1
\* sessionService.create calls HomePage issues
MaxCreateCalls == 2
\* itemService.add calls SessionPage issues, and items on one receipt
MaxAddCalls == 3
MaxReceiptItems == 2

\* ------------------------------------------------------------- arithmetic
\* units in one sen: the stored SST, amount * 0.06, has two more decimal
\* digits than the whole-sen amount, so amounts are multiples of 1/100 sen
SenUnits == 100

\* item amounts a session page can submit (whole sen): RM 0.25, RM 15, RM 30
ItemAmounts == {25 * SenUnits, 1500 * SenUnits, 3000 * SenUnits}

Abs(x) == IF x < 0 THEN -x ELSE x

Min(a, b) == IF a <= b THEN a ELSE b

RECURSIVE SumSeq(_)
SumSeq(s) == IF s = <<>> THEN 0 ELSE Head(s) + SumSeq(Tail(s))

RECURSIVE SetToSeq(_)
SetToSeq(S) ==
    IF S = {} THEN <<>>
    ELSE LET m == CHOOSE x \in S : \A y \in S : x <= y
         IN  <<m>> \o SetToSeq(S \ {m})

SeqToSet(s) == {s[i] : i \in 1..Len(s)}

\* Math.round(x * 100) / 100 for x = num / den units, den > 0: the nearest
\* whole sen, a half rounding towards plus infinity
roundToTwoDecimals(num, den) ==
    ((2 * num + SenUnits * den) \div (2 * SenUnits * den)) * SenUnits

\* ------------------------------------------------------------- calculator
\* rates in percent
DEFAULT_TAX_CONFIG ==
    [sstRate |-> 6, serviceChargeRate |-> 10, applyServiceChargeToAll |-> TRUE]

calculateServiceCharge(amount, cfg) ==
    roundToTwoDecimals(amount * cfg.serviceChargeRate, 100)

includes(s, x) == \E i \in 1..Len(s) : s[i] = x

\* an empty sharedBy read as "shared by every participant"
calculateItemContributionEmptyMeansAll(participant, item, totalParticipants, cfg) ==
    IF ~includes(item.sharedBy, participant) /\ item.sharedBy # <<>>
    THEN [contribution |-> 0, sstContribution |-> 0, serviceChargeContribution |-> 0]
    ELSE LET shareCount == IF item.sharedBy = <<>> THEN totalParticipants
                           ELSE Len(item.sharedBy)
             serviceChargeAmount == calculateServiceCharge(item.totalAmount, cfg)
         IN  [contribution |-> roundToTwoDecimals(item.totalAmount, shareCount),
              sstContribution |->
                  IF item.hasSst /\ item.sstAmount # 0
                  THEN roundToTwoDecimals(item.sstAmount, shareCount)
                  ELSE 0,
              serviceChargeContribution |->
                  IF cfg.applyServiceChargeToAll
                  THEN roundToTwoDecimals(serviceChargeAmount, totalParticipants)
                  ELSE roundToTwoDecimals(serviceChargeAmount, shareCount)]

calculateItemContribution(participant, item, totalParticipants, cfg) ==
    IF ~includes(item.sharedBy, participant)
    THEN [contribution |-> 0, sstContribution |-> 0, serviceChargeContribution |-> 0]
    ELSE LET shareCount == Len(item.sharedBy)
             serviceChargeAmount == calculateServiceCharge(item.totalAmount, cfg)
         IN  [contribution |-> roundToTwoDecimals(item.totalAmount, shareCount),
              sstContribution |->
                  IF item.hasSst /\ item.sstAmount # 0
                  THEN roundToTwoDecimals(item.sstAmount, shareCount)
                  ELSE 0,
              serviceChargeContribution |->
                  IF cfg.applyServiceChargeToAll
                  THEN roundToTwoDecimals(serviceChargeAmount, totalParticipants)
                  ELSE roundToTwoDecimals(serviceChargeAmount, shareCount)]

\* what one item adds to the participant's totalOwed (forEach body, first half)
OwedForItem(participant, item, totalParticipants, cfg) ==
    LET c == calculateItemContribution(participant, item, totalParticipants, cfg)
    IN  IF c.contribution > 0
        THEN c.contribution + c.sstContribution + c.serviceChargeContribution
        ELSE 0

\* what one item adds to the participant's totalPaid (forEach body, second half)
PaidForItem(participant, item, cfg) ==
    IF item.paidBy = participant
    THEN item.totalAmount
         + (IF item.hasSst /\ item.sstAmount # 0 THEN item.sstAmount ELSE 0)
         + calculateServiceCharge(item.totalAmount, cfg)
    ELSE 0

calculateParticipantBalance(participant, its, totalParticipants, cfg) ==
    LET totalOwed ==
            SumSeq([i \in 1..Len(its) |->
                       OwedForItem(participant, its[i], totalParticipants, cfg)])
        totalPaid ==
            SumSeq([i \in 1..Len(its) |-> PaidForItem(participant, its[i], cfg)])
        \* the items whose contribution is pushed, named by their position
        pushed ==
            SelectSeq([i \in 1..Len(its) |-> i],
                      LAMBDA i : calculateItemContribution(
                                     participant, its[i], totalParticipants, cfg
                                 ).contribution > 0)
    IN  [participantId |-> participant,
         totalOwed |-> roundToTwoDecimals(totalOwed, 1),
         totalPaid |-> roundToTwoDecimals(totalPaid, 1),
         netAmount |-> roundToTwoDecimals(totalOwed - totalPaid, 1),
         itemBreakdown |->
             [k \in 1..Len(pushed) |->
                 LET c == calculateItemContribution(
                              participant, its[pushed[k]], totalParticipants, cfg)
                 IN  [itemId |-> pushed[k],
                      contribution |-> c.contribution,
                      sstContribution |-> c.sstContribution,
                      serviceChargeContribution |-> c.serviceChargeContribution]]]

calculateSummary(its, cfg) ==
    [totalAmount |->
         roundToTwoDecimals(SumSeq([i \in 1..Len(its) |-> its[i].totalAmount]), 1),
     totalSst |->
         roundToTwoDecimals(
             SumSeq([i \in 1..Len(its) |->
                        IF its[i].hasSst /\ its[i].sstAmount # 0
                        THEN its[i].sstAmount ELSE 0]), 1),
     totalServiceCharge |->
         roundToTwoDecimals(
             SumSeq([i \in 1..Len(its) |->
                        calculateServiceCharge(its[i].totalAmount, cfg)]), 1),
     itemCount |-> Len(its)]

createEmptyResult(ps) ==
    [participants |->
         [i \in 1..Len(ps) |->
             [participantId |-> ps[i], totalOwed |-> 0, totalPaid |-> 0,
              netAmount |-> 0, itemBreakdown |-> <<>>]],
     summary |->
         [totalAmount |-> 0, totalSst |-> 0, totalServiceCharge |-> 0, itemCount |-> 0]]

\* the early return taken only when both lists are empty
calculateSessionBothEmpty(ps, its, cfg) ==
    IF Len(ps) = 0 /\ Len(its) = 0
    THEN createEmptyResult(ps)
    ELSE [participants |->
              [i \in 1..Len(ps) |->
                  calculateParticipantBalance(ps[i], its, Len(ps), cfg)],
          summary |-> calculateSummary(its, cfg)]

\* the CalculationResult: the balances and the summary
calculateSession(ps, its, cfg) ==
    IF Len(ps) = 0 \/ Len(its) = 0
    THEN createEmptyResult(ps)
    ELSE [participants |->
              [i \in 1..Len(ps) |->
                  calculateParticipantBalance(ps[i], its, Len(ps), cfg)],
          summary |-> calculateSummary(its, cfg)]

validateCalculation(result) ==
    LET totalOwed == SumSeq([i \in 1..Len(result) |-> result[i].totalOwed])
        totalPaid == SumSeq([i \in 1..Len(result) |-> result[i].totalPaid])
        netSum == SumSeq([i \in 1..Len(result) |-> result[i].netAmount])
    IN  ~(Abs(totalOwed - totalPaid) > SenUnits) /\ ~(Abs(netSum) > SenUnits)

\* ------------------------------------------------------------------ store
\* no call of the tax calculator has been made
TaxIdle ==
    /\ taxItems = <<>>
    /\ breakdown = <<>>
    /\ rounding = <<>>

\* nothing stored and no call made yet
StoreIdle ==
    /\ storedSessions = <<>>
    /\ storedParticipants = <<>>
    /\ storedItems = <<>>
    /\ storedPaymentMethods = <<>>
    /\ nextId = 1
    /\ response = <<>>

\* SessionPage not mounted
PageIdle ==
    /\ pageSession = <<>>
    /\ addCalls = <<>>

\* HomePage with an empty form and nobody signed in (user 0)
HomeIdle ==
    /\ user = 0
    /\ sessionName = ""
    /\ createCalls = <<>>
    /\ navigatedTo = <<>>
    /\ showAuthModal = FALSE
    /\ homeToast = ""

\* AuthProvider before its effect has run: useState(true), no call awaited
AuthIdle ==
    /\ loading = TRUE
    /\ inFlight = <<>>

\* calculatePaymentInstructions not called
PayIdle == payment = <<>>

\* the parts of the application a specification leaves alone
AppIdle ==
    /\ serviceType = "localStorage"
    /\ StoreIdle
    /\ PageIdle
    /\ HomeIdle
    /\ AuthIdle
    /\ PayIdle

\* localStorageService.items.add: the BillItem it stores; perPersonAmount is
\* the quotient amount / sharedBy.length, kept as its dividend and divisor
NewItem(amount, paidBy, sharedBy, hasSst) ==
    [totalAmount |-> amount,
     paidBy |-> paidBy,
     sharedBy |-> sharedBy,
     hasSst |-> hasSst,
     sstAmount |-> IF hasSst THEN (amount * 6) \div 100 ELSE 0,
     perPersonAmount |-> [dividend |-> amount, divisor |-> Len(sharedBy)]]

\* sharedBy lists the session page can build from the current participants
SharedByInputs == {SetToSeq(S) : S \in (SUBSET SeqToSet(participants)) \ {{}}}

Init ==
    /\ participants = <<>>
    /\ items = <<>>
    /\ taxConfig = DEFAULT_TAX_CONFIG
    /\ balances = <<>>
    /\ summary = createEmptyResult(<<>>).summary
    /\ calls = <<>>
    /\ pc = "session"
    /\ debtors = <<>>
    /\ creditors = <<>>
    /\ instructions = <<>>
    /\ TaxIdle
    /\ AppIdle

AddParticipant ==
    /\ pc = "session"
    /\ Len(participants) < MaxParticipants
    /\ participants' = Append(participants, Len(participants) + 1)
    /\ UNCHANGED <<items, taxConfig, balances, summary, calls, pc, debtors, creditors,
                 instructions, taxVars, appVars>>

AddItem ==
    /\ pc = "session"
    /\ Len(items) < MaxItems
    /\ \E amount \in ItemAmounts, paidBy \in SeqToSet(participants),
          sharedBy \in SharedByInputs, hasSst \in BOOLEAN :
          items' = Append(items, NewItem(amount, paidBy, sharedBy, hasSst))
    /\ UNCHANGED <<participants, taxConfig, balances, summary, calls, pc, debtors,
                 creditors, instructions, taxVars, appVars>>

\* localStorageService.items.update: data holds each optional field as <<>>
\* (not supplied) or <<value>>; an amount of 0 and a paidBy of 0 are falsy
UpdatedItem(currentItem, data) ==
    LET amount == IF data.amount # <<>> /\ data.amount[1] # 0
                  THEN data.amount[1] ELSE currentItem.totalAmount
        sharedBy == IF data.sharedBy # <<>>
                    THEN data.sharedBy[1] ELSE currentItem.sharedBy
    IN  [totalAmount |-> amount,
         paidBy |-> IF data.paidBy # <<>> /\ data.paidBy[1] # 0
                    THEN data.paidBy[1] ELSE currentItem.paidBy,
         sharedBy |-> sharedBy,
         hasSst |-> IF data.hasSst # <<>> THEN data.hasSst[1] ELSE currentItem.hasSst,
         sstAmount |-> IF data.hasSst # <<>> /\ data.hasSst[1]
                       THEN (amount * 6) \div 100 ELSE 0,
         perPersonAmount |-> [dividend |-> amount, divisor |-> Len(sharedBy)]]

Optional(S) == {<<>>} \cup {<<x>> : x \in S}

\* the Partial<AddItemForm> values an update is tried with
UpdateInputs ==
    [amount : Optional(ItemAmounts),
     paidBy : Optional({participants[1]}),
     sharedBy : Optional({participants}),
     hasSst : Optional(BOOLEAN)]

UpdateItem ==
    /\ pc = "session"
    /\ Len(participants) > 0
    /\ \E index \in 1..Len(items), data \in UpdateInputs :
          items' = [items EXCEPT ![index] = UpdatedItem(items[index], data)]
    /\ UNCHANGED <<participants, taxConfig, balances, summary, calls, pc, debtors,
                 creditors, instructions, taxVars, appVars>>

\* one call of calculateParticipantBalances as calls remembers it: the
\* arguments, the configuration defaultCalculator held, and the result
CallRecord(result) ==
    [participants |-> participants, items |-> items, taxConfig |-> taxConfig,
     result |-> result]

Calculate ==
    /\ pc = "session"
    /\ LET result == calculateSession(participants, items, taxConfig)
       IN  /\ balances' = result.participants
           /\ summary' = result.summary
           /\ calls' = Append(calls, CallRecord(result))
    /\ pc' = "calculated"
    /\ UNCHANGED <<participants, items, taxConfig, debtors, creditors, instructions,
                   taxVars, appVars>>

\* --------------------------------------------- generatePaymentInstructions
\* a filter that also keeps the settled (zero) balances
IsDebtorOrSettled(b) == b.netAmount <= 0

\* the tests of balances.filter(...), which keeps list order
IsDebtor(b) == b.netAmount < 0

IsCreditorOrSettled(b) == b.netAmount >= 0

IsCreditor(b) == b.netAmount > 0

\* the removal test with its comparison turned around
SettledFlipped(netAmount, drift) == Abs(netAmount) > SenUnits

\* Math.abs(netAmount) < 0.01 on the running binary floating-point balance:
\* a remainder of exactly one sen may come out just under 0.01 (drift), as
\* -0.06 + 0.05 = -0.009999999999999995 does
Settled(netAmount, drift) ==
    \/ Abs(netAmount) < SenUnits
    \/ drift /\ Abs(netAmount) = SenUnits

BeginInstructions ==
    /\ pc = "calculated"
    /\ debtors' = SelectSeq(balances, IsDebtor)
    /\ creditors' = SelectSeq(balances, IsCreditor)
    /\ instructions' = <<>>
    /\ pc' = "loop"
    /\ UNCHANGED <<participants, items, taxConfig, balances, summary, calls, taxVars, appVars>>

LoopIteration ==
    /\ pc = "loop"
    /\ Len(debtors) > 0 /\ Len(creditors) > 0
    /\ \E drift \in BOOLEAN :
          LET debtor == debtors[1]
              creditor == creditors[1]
              paymentAmount == Min(Abs(debtor.netAmount), creditor.netAmount)
              debtorNet == debtor.netAmount + paymentAmount
              creditorNet == creditor.netAmount - paymentAmount
          IN  /\ instructions' =
                    Append(instructions,
                           [from |-> debtor.participantId,
                            to |-> creditor.participantId,
                            amount |-> roundToTwoDecimals(paymentAmount, 1)])
              /\ debtors' =
                    IF Settled(debtorNet, drift) THEN Tail(debtors)
                    ELSE [debtors EXCEPT ![1].netAmount = debtorNet]
              /\ creditors' =
                    IF Settled(creditorNet, drift) THEN Tail(creditors)
                    ELSE [creditors EXCEPT ![1].netAmount = creditorNet]
    /\ UNCHANGED <<participants, items, taxConfig, balances, summary, calls, pc,
                   taxVars, appVars>>

ReturnInstructions ==
    /\ pc = "loop"
    /\ ~(Len(debtors) > 0 /\ Len(creditors) > 0)
    /\ pc' = "returned"
    /\ UNCHANGED <<participants, items, taxConfig, balances, summary, calls, debtors,
                   creditors, instructions, taxVars, appVars>>

Next ==
    \/ AddParticipant
    \/ AddItem
    \/ UpdateItem
    \/ Calculate
    \/ BeginInstructions
    \/ LoopIteration
    \/ ReturnInstructions

Spec == Init /\ [][Next]_vars

\* ---------------------------------------- settlement of arbitrary balances
\* generatePaymentInstructions called on any list of whole-sen balances
BalanceOf(id, net) ==
    [participantId |-> id,
     totalOwed |-> IF net > 0 THEN net ELSE 0,
     totalPaid |-> IF net < 0 THEN -net ELSE 0,
     netAmount |-> net,
     itemBreakdown |-> <<>>]

InitSettle ==
    /\ \E n \in 1..MaxBalances :
          /\ participants = [i \in 1..n |-> i]
          /\ \E net \in [1..n -> {k * SenUnits : k \in -MaxNet..MaxNet}] :
                balances = [i \in 1..n |-> BalanceOf(i, net[i])]
    /\ items = <<>>
    /\ taxConfig = DEFAULT_TAX_CONFIG
    /\ summary = createEmptyResult(<<>>).summary
    /\ calls = <<>>
    /\ TaxIdle
    /\ AppIdle
    /\ pc = "calculated"
    /\ debtors = <<>>
    /\ creditors = <<>>
    /\ instructions = <<>>

NextSettle ==
    \/ BeginInstructions
    \/ LoopIteration
    \/ ReturnInstructions

SpecSettle == InitSettle /\ [][NextSettle]_vars

\* ------------------------------------------- calculatePaymentInstructions
\* the forEach over result.participants: netAmount > 0 goes to toPay,
\* netAmount < 0 to toReceive with its absolute value; names are the ids
toPayOf(bs) ==
    LET payers == SelectSeq(bs, LAMBDA b : b.netAmount > 0)
    IN  [k \in 1..Len(payers) |->
            [name |-> payers[k].participantId, amount |-> payers[k].netAmount,
             to |-> <<>>]]

toReceiveOf(bs) ==
    LET receivers == SelectSeq(bs, LAMBDA b : b.netAmount < 0)
    IN  [k \in 1..Len(receivers) |->
            [name |-> receivers[k].participantId,
             amount |-> Abs(receivers[k].netAmount), from |-> <<>>]]

\* the inner toReceive.forEach for one payer, from receiver k on: a transfer
\* of min(remainingAmount, receiver.amount) is noted on both sides and
\* taken off remainingAmount and receiver.amount
RECURSIVE MatchReceivers(_, _, _, _)
MatchReceivers(payer, remainingAmount, receivers, k) ==
    IF k > Len(receivers) THEN [payer |-> payer, receivers |-> receivers]
    ELSE IF remainingAmount > 0 /\ receivers[k].amount > 0
    THEN LET transferAmount == Min(remainingAmount, receivers[k].amount)
         IN  MatchReceivers(
                 [payer EXCEPT !.to =
                     Append(@, [name |-> receivers[k].name,
                                amount |-> roundToTwoDecimals(transferAmount, 1)])],
                 remainingAmount - transferAmount,
                 [receivers EXCEPT
                     ![k].amount = @ - transferAmount,
                     ![k].from =
                         Append(@, [name |-> payer.name,
                                    amount |-> roundToTwoDecimals(transferAmount, 1)])],
                 k + 1)
    ELSE MatchReceivers(payer, remainingAmount, receivers, k + 1)

\* the outer toPay.forEach, from payer j on
RECURSIVE MatchPayers(_, _, _)
MatchPayers(payers, receivers, j) ==
    IF j > Len(payers) THEN [toPay |-> payers, toReceive |-> receivers]
    ELSE LET matched == MatchReceivers(payers[j], payers[j].amount, receivers, 1)
         IN  MatchPayers([payers EXCEPT ![j] = matched.payer], matched.receivers, j + 1)

calculatePaymentInstructions(bs) == MatchPayers(toPayOf(bs), toReceiveOf(bs), 1)

\* the same balances handed to calculatePaymentInstructions once
\* generatePaymentInstructions has returned
CalculatePaymentInstructions ==
    /\ pc = "returned"
    /\ payment = <<>>
    /\ payment' = <<calculatePaymentInstructions(balances)>>
    /\ UNCHANGED <<sessionVars, taxVars, storeVars, pageVars, homeVars, authVars>>

NextPay ==
    \/ NextSettle
    \/ CalculatePaymentInstructions

SpecPay == InitSettle /\ [][NextPay]_vars

\* ------------------------------------- calculateSession on any Session
\* participant ids a Session value may mention
EngineIds == 1..EngineParticipants

\* sharedBy arrays: any ascending list of ids, the empty one included, and
\* any of them with one of its ids listed a second time
EngineSharedBy ==
    {SetToSeq(S) : S \in SUBSET EngineIds}
        \cup UNION {{SetToSeq(S) \o <<x>> : x \in S} : S \in SUBSET EngineIds}

\* BillItem values as items.add stores them; paidBy and sharedBy need not
\* name a participant of the session
EngineItemSet ==
    {NewItem(amount, paidBy, sharedBy, hasSst) :
        amount \in ItemAmounts, paidBy \in EngineIds,
        sharedBy \in EngineSharedBy, hasSst \in BOOLEAN}

InitEngine ==
    /\ \E n \in 0..EngineParticipants : participants = [i \in 1..n |-> i]
    /\ \E k \in 0..EngineItems : items \in [1..k -> EngineItemSet]
    /\ taxConfig = DEFAULT_TAX_CONFIG
    /\ balances = <<>>
    /\ summary = createEmptyResult(<<>>).summary
    /\ calls = <<>>
    /\ pc = "session"
    /\ debtors = <<>>
    /\ creditors = <<>>
    /\ instructions = <<>>
    /\ TaxIdle
    /\ AppIdle

NextEngine == Calculate

SpecEngine == InitEngine /\ [][NextEngine]_vars

\* ------------------------------------- the shared defaultCalculator
\* the Partial<TaxConfig> values updateTaxConfig is tried with (percent)
TaxConfigInputs ==
    [sstRate : Optional({6, 8}),
     serviceChargeRate : Optional({5, 10}),
     applyServiceChargeToAll : Optional(BOOLEAN)]

\* { ...this.taxConfig, ...newConfig }
MergedConfig(cfg, newConfig) ==
    [sstRate |-> IF newConfig.sstRate # <<>> THEN newConfig.sstRate[1] ELSE cfg.sstRate,
     serviceChargeRate |->
         IF newConfig.serviceChargeRate # <<>>
         THEN newConfig.serviceChargeRate[1] ELSE cfg.serviceChargeRate,
     applyServiceChargeToAll |->
         IF newConfig.applyServiceChargeToAll # <<>>
         THEN newConfig.applyServiceChargeToAll[1] ELSE cfg.applyServiceChargeToAll]

\* defaultCalculator.updateTaxConfig(newConfig), before or between calls
UpdateTaxConfig ==
    /\ pc \in {"session", "calculated"}
    /\ \E newConfig \in TaxConfigInputs :
          taxConfig' = MergedConfig(taxConfig, newConfig)
    /\ UNCHANGED <<participants, items, balances, summary, calls, pc, debtors,
                   creditors, instructions, taxVars, appVars>>

\* a further call of calculateParticipantBalances on the same session
Recalculate ==
    /\ pc = "calculated"
    /\ Len(calls) < MaxCalls
    /\ LET result == calculateSession(participants, items, taxConfig)
       IN  /\ balances' = result.participants
           /\ summary' = result.summary
           /\ calls' = Append(calls, CallRecord(result))
    /\ UNCHANGED <<participants, items, taxConfig, pc, debtors, creditors,
                   instructions, taxVars, appVars>>

\* a session of two participants and one item the session page submitted
InitConfig ==
    /\ participants = <<1, 2>>
    /\ \E amount \in ItemAmounts, paidBy \in {1, 2},
          sharedBy \in SharedByInputs, hasSst \in BOOLEAN :
          items = <<NewItem(amount, paidBy, sharedBy, hasSst)>>
    /\ taxConfig = DEFAULT_TAX_CONFIG
    /\ balances = <<>>
    /\ summary = createEmptyResult(<<>>).summary
    /\ calls = <<>>
    /\ pc = "session"
    /\ debtors = <<>>
    /\ creditors = <<>>
    /\ instructions = <<>>
    /\ TaxIdle
    /\ AppIdle

NextConfig ==
    \/ UpdateTaxConfig
    \/ Calculate
    \/ Recalculate

SpecConfig == InitConfig /\ [][NextConfig]_vars

\* ------------------------------------------------ MalaysianTaxCalculator
\* rates in percent
SST_RATE == 6

SERVICE_CHARGE_RATE == 10

\* Math.round(amount * 100) / 100 for amount = num / den units, den > 0
roundToSen(num, den) ==
    ((2 * num + SenUnits * den) \div (2 * SenUnits * den)) * SenUnits

\* the remainder operator %, which takes the sign of the dividend
Remainder(a, n) == IF a >= 0 THEN a % n ELSE -((-a) % n)

\* Math.round(amount * 100): the nearest whole number of sen, a half going
\* up; for an amount exactly half way between two sen the binary product
\* may fall just short of the half (drift), as 1.005 * 100 does
Cents(amount, drift) ==
    IF drift /\ amount % SenUnits = SenUnits \div 2
    THEN amount \div SenUnits
    ELSE (2 * amount + SenUnits) \div (2 * SenUnits)

\* a last digit of 3 rounded down with 0, 1 and 2
applyMalaysianRoundingThreeDown(amount, drift) ==
    LET cents == Cents(amount, drift)
        lastDigit == Remainder(cents, 10)
        roundedCents ==
            IF lastDigit <= 3 THEN cents - lastDigit
            ELSE IF lastDigit <= 7 THEN cents - lastDigit + 5
            ELSE cents - lastDigit + 10
    IN  roundedCents * SenUnits

\* a last digit of 5 and above sent up to the next ten sen
applyMalaysianRoundingFiveUp(amount, drift) ==
    LET cents == Cents(amount, drift)
        lastDigit == Remainder(cents, 10)
        roundedCents ==
            IF lastDigit <= 2 THEN cents - lastDigit
            ELSE IF lastDigit < 5 THEN cents - lastDigit + 5
            ELSE cents - lastDigit + 10
    IN  roundedCents * SenUnits

applyMalaysianRounding(amount, drift) ==
    LET cents == Cents(amount, drift)
        lastDigit == Remainder(cents, 10)
        roundedCents ==
            IF lastDigit <= 2 THEN cents - lastDigit
            ELSE IF lastDigit <= 7 THEN cents - lastDigit + 5
            ELSE cents - lastDigit + 10
    IN  roundedCents * SenUnits

\* the SST taken once on the summed base plus the rounded service charge
calculateTaxesAggregateSst(its) ==
    LET taxed(i) == ~its[i].isExempt
        subtotal == SumSeq([i \in 1..Len(its) |-> its[i].amount])
        serviceChargeBase ==
            SumSeq([i \in 1..Len(its) |->
                       IF taxed(i) /\ its[i].hasServiceCharge THEN its[i].amount ELSE 0])
        sstBase ==
            SumSeq([i \in 1..Len(its) |->
                       IF taxed(i) /\ its[i].hasSST THEN its[i].amount ELSE 0])
        serviceChargeAmount == roundToSen(serviceChargeBase * SERVICE_CHARGE_RATE, 100)
        sstAmount == roundToSen((sstBase + serviceChargeAmount) * SST_RATE, 100)
        totalBeforeRounding == subtotal + serviceChargeAmount + sstAmount
        finalTotal == applyMalaysianRounding(totalBeforeRounding, FALSE)
    IN  [subtotal |-> roundToSen(subtotal, 1),
         serviceChargeAmount |-> serviceChargeAmount,
         sstAmount |-> sstAmount,
         totalBeforeRounding |-> totalBeforeRounding,
         roundingAdjustment |-> roundToSen(finalTotal - totalBeforeRounding, 1),
         finalTotal |-> finalTotal]

\* the isExempt flag never looked at
calculateTaxesIgnoringExempt(its) ==
    LET itemServiceCharge(i) ==
            IF its[i].hasServiceCharge
            THEN (its[i].amount * SERVICE_CHARGE_RATE) \div 100 ELSE 0
        subtotal == SumSeq([i \in 1..Len(its) |-> its[i].amount])
        serviceChargeBase ==
            SumSeq([i \in 1..Len(its) |->
                       IF its[i].hasServiceCharge THEN its[i].amount ELSE 0])
        serviceChargeAmount == roundToSen(serviceChargeBase * SERVICE_CHARGE_RATE, 100)
        sstAmount ==
            roundToSen(
                SumSeq([i \in 1..Len(its) |->
                           IF its[i].hasSST
                           THEN (its[i].amount + itemServiceCharge(i)) * SST_RATE
                           ELSE 0]),
                100)
        totalBeforeRounding == subtotal + serviceChargeAmount + sstAmount
        finalTotal == applyMalaysianRounding(totalBeforeRounding, FALSE)
    IN  [subtotal |-> roundToSen(subtotal, 1),
         serviceChargeAmount |-> serviceChargeAmount,
         sstAmount |-> sstAmount,
         totalBeforeRounding |-> totalBeforeRounding,
         roundingAdjustment |-> roundToSen(finalTotal - totalBeforeRounding, 1),
         finalTotal |-> finalTotal]

\* item amounts are whole sen, so an item's service charge, amount * 0.10,
\* is a whole number of units; totalBeforeRounding is a sum of whole-sen
\* values, never half way between two sen
calculateTaxes(its) ==
    LET taxed(i) == ~its[i].isExempt
        itemServiceCharge(i) ==
            IF its[i].hasServiceCharge
            THEN (its[i].amount * SERVICE_CHARGE_RATE) \div 100 ELSE 0
        subtotal == SumSeq([i \in 1..Len(its) |-> its[i].amount])
        serviceChargeBase ==
            SumSeq([i \in 1..Len(its) |->
                       IF taxed(i) /\ its[i].hasServiceCharge THEN its[i].amount ELSE 0])
        serviceChargeAmount == roundToSen(serviceChargeBase * SERVICE_CHARGE_RATE, 100)
        sstAmount ==
            roundToSen(
                SumSeq([i \in 1..Len(its) |->
                           IF taxed(i) /\ its[i].hasSST
                           THEN (its[i].amount + itemServiceCharge(i)) * SST_RATE
                           ELSE 0]),
                100)
        totalBeforeRounding == subtotal + serviceChargeAmount + sstAmount
        finalTotal == applyMalaysianRounding(totalBeforeRounding, FALSE)
    IN  [subtotal |-> roundToSen(subtotal, 1),
         serviceChargeAmount |-> serviceChargeAmount,
         sstAmount |-> sstAmount,
         totalBeforeRounding |-> totalBeforeRounding,
         roundingAdjustment |-> roundToSen(finalTotal - totalBeforeRounding, 1),
         finalTotal |-> finalTotal]

\* amounts of the taxable items tried (whole sen): RM 0.23, 20, 30, 50, 100
TaxAmounts ==
    {23 * SenUnits, 2000 * SenUnits, 3000 * SenUnits, 5000 * SenUnits, 10000 * SenUnits}

TaxableItem ==
    [amount : TaxAmounts, hasSST : BOOLEAN, hasServiceCharge : BOOLEAN,
     isExempt : BOOLEAN]

\* no session is open while the tax calculator is exercised
SessionIdle ==
    /\ participants = <<>>
    /\ items = <<>>
    /\ taxConfig = DEFAULT_TAX_CONFIG
    /\ balances = <<>>
    /\ summary = createEmptyResult(<<>>).summary
    /\ calls = <<>>
    /\ pc = "session"
    /\ debtors = <<>>
    /\ creditors = <<>>
    /\ instructions = <<>>

InitTax ==
    /\ SessionIdle
    /\ \E n \in 0..MaxTaxItems : taxItems \in [1..n -> TaxableItem]
    /\ breakdown = <<>>
    /\ rounding = <<>>
    /\ AppIdle

\* one call of calculateTaxes(taxItems); breakdown holds what it returned
CalculateTaxes ==
    /\ breakdown = <<>>
    /\ breakdown' = <<calculateTaxes(taxItems)>>
    /\ UNCHANGED <<sessionVars, taxItems, rounding, appVars>>

NextTax == CalculateTaxes

SpecTax == InitTax /\ [][NextTax]_vars

\* amounts handed to applyMalaysianRounding: every quarter of a sen from
\* -MaxRoundingSen to MaxRoundingSen
RoundingAmounts ==
    {k * (SenUnits \div 4) : k \in (-4 * MaxRoundingSen)..(4 * MaxRoundingSen)}

InitRounding ==
    /\ SessionIdle
    /\ TaxIdle
    /\ AppIdle

\* a call applyMalaysianRounding(amount); rounding lists the calls made
ApplyMalaysianRounding ==
    /\ rounding = <<>>
    /\ \E amount \in RoundingAmounts, drift \in BOOLEAN :
          rounding' = <<[amount |-> amount,
                         result |-> applyMalaysianRounding(amount, drift)]>>
    /\ UNCHANGED <<sessionVars, taxItems, breakdown, appVars>>

\* the result of the last call handed back to applyMalaysianRounding
ReapplyMalaysianRounding ==
    /\ Len(rounding) = 1
    /\ \E drift \in BOOLEAN :
          rounding' = Append(rounding,
                             [amount |-> rounding[1].result,
                              result |-> applyMalaysianRounding(rounding[1].result, drift)])
    /\ UNCHANGED <<sessionVars, taxItems, breakdown, appVars>>

NextRounding ==
    \/ ApplyMalaysianRounding
    \/ ReapplyMalaysianRounding

SpecRounding == InitRounding /\ [][NextRounding]_vars

\* --------------------------------------------- the local-storage service
\* the records of one session, in storage order
OfSession(records, sessionId) == SelectSeq(records, LAMBDA r : r.sessionId = sessionId)

NotOfSession(records, sessionId) ==
    SelectSeq(records, LAMBDA r : r.sessionId # sessionId)

\* array.filter(x => x.id !== id)
WithoutId(records, id) == SelectSeq(records, LAMBDA r : r.id # id)

Ids(records) == {records[i].id : i \in 1..Len(records)}

\* the Participant that participants.add stores
NewParticipant(id, sessionId) ==
    [id |-> id, sessionId |-> sessionId, totalOwed |-> 0, totalPaid |-> 0,
     netAmount |-> 0]

\* the BillItem that items.add stores, with its id and session
StoredItem(id, sessionId, amount, paidBy, sharedBy, hasSst) ==
    LET item == NewItem(amount, paidBy, sharedBy, hasSst)
    IN  [id |-> id, sessionId |-> sessionId,
         totalAmount |-> item.totalAmount, paidBy |-> item.paidBy,
         sharedBy |-> item.sharedBy, hasSst |-> item.hasSst,
         sstAmount |-> item.sstAmount, perPersonAmount |-> item.perPersonAmount]

\* the amount of the items stored here: RM 30
StoreAmounts == {3000 * SenUnits}

\* non-empty ascending lists of ids out of S
SharedByOf(S) == {SetToSeq(T) : T \in (SUBSET S) \ {{}}}

InitStore ==
    /\ SessionIdle
    /\ TaxIdle
    /\ AppIdle

\* sessions.create
SessionsCreate ==
    /\ Len(storedSessions) < MaxSessions
    /\ nextId <= MaxIds
    /\ storedSessions' = Append(storedSessions, [id |-> nextId, organizerId |-> 0])
    /\ nextId' = nextId + 1
    /\ response' = <<>>
    /\ UNCHANGED <<serviceType, storedParticipants, storedItems, storedPaymentMethods>>
    /\ UNCHANGED <<sessionVars, taxVars, pageVars, homeVars, authVars, payVars>>

\* participants.add(sessionId, data) for a session that was created
ParticipantsAdd ==
    /\ Len(storedParticipants) < MaxStoredParticipants
    /\ nextId <= MaxIds
    /\ \E sessionId \in Ids(storedSessions) :
          storedParticipants' =
              Append(storedParticipants, NewParticipant(nextId, sessionId))
    /\ nextId' = nextId + 1
    /\ response' = <<>>
    /\ UNCHANGED <<serviceType, storedSessions, storedItems, storedPaymentMethods>>
    /\ UNCHANGED <<sessionVars, taxVars, pageVars, homeVars, authVars, payVars>>

\* the database's ON DELETE CASCADE when a participants row goes: the
\* bill_items rows it paid for are deleted, and so are its
\* bill_item_participants rows (an item's sharedBy is read from them)
CascadeItems(its, participantId) ==
    LET kept == SelectSeq(its, LAMBDA i : i.paidBy # participantId)
    IN  [k \in 1..Len(kept) |->
            [kept[k] EXCEPT !.sharedBy = SelectSeq(@, LAMBDA x : x # participantId)]]

\* a local removal that cascades as the database does
ParticipantsRemoveCascading ==
    /\ \E participantId \in Ids(storedParticipants) :
          /\ storedParticipants' = WithoutId(storedParticipants, participantId)
          /\ storedItems' = CascadeItems(storedItems, participantId)
    /\ response' = <<>>
    /\ UNCHANGED <<serviceType, storedSessions, storedPaymentMethods, nextId>>
    /\ UNCHANGED <<sessionVars, taxVars, pageVars, homeVars, authVars, payVars>>

\* participants.remove(participantId)
ParticipantsRemove ==
    /\ \E participantId \in Ids(storedParticipants) :
          storedParticipants' = WithoutId(storedParticipants, participantId)
    /\ response' = <<>>
    /\ UNCHANGED <<serviceType, storedSessions, storedItems, storedPaymentMethods,
                   nextId>>
    /\ UNCHANGED <<sessionVars, taxVars, pageVars, homeVars, authVars, payVars>>

\* items.add(sessionId, data), paidBy and sharedBy out of the session's
\* participants
ItemsAdd ==
    /\ Len(storedItems) < MaxStoredItems
    /\ nextId <= MaxIds
    /\ \E sessionId \in Ids(storedSessions) :
          LET members == Ids(OfSession(storedParticipants, sessionId))
          IN  \E amount \in StoreAmounts, paidBy \in members,
                 sharedBy \in SharedByOf(members), hasSst \in BOOLEAN :
                 storedItems' =
                     Append(storedItems,
                            StoredItem(nextId, sessionId, amount, paidBy, sharedBy, hasSst))
    /\ nextId' = nextId + 1
    /\ response' = <<>>
    /\ UNCHANGED <<serviceType, storedSessions, storedParticipants,
                   storedPaymentMethods>>
    /\ UNCHANGED <<sessionVars, taxVars, pageVars, homeVars, authVars, payVars>>

\* items.remove(itemId)
ItemsRemove ==
    /\ \E itemId \in Ids(storedItems) : storedItems' = WithoutId(storedItems, itemId)
    /\ response' = <<>>
    /\ UNCHANGED <<serviceType, storedSessions, storedParticipants,
                   storedPaymentMethods, nextId>>
    /\ UNCHANGED <<sessionVars, taxVars, pageVars, homeVars, authVars, payVars>>

\* paymentMethods.add({ ..., sessionId }), one method a session at most here
PaymentMethodsAdd ==
    /\ nextId <= MaxIds
    /\ \E sessionId \in Ids(storedSessions) :
          /\ OfSession(storedPaymentMethods, sessionId) = <<>>
          /\ storedPaymentMethods' =
                Append(storedPaymentMethods, [id |-> nextId, sessionId |-> sessionId])
    /\ nextId' = nextId + 1
    /\ response' = <<>>
    /\ UNCHANGED <<serviceType, storedSessions, storedParticipants, storedItems>>
    /\ UNCHANGED <<sessionVars, taxVars, pageVars, homeVars, authVars, payVars>>

\* sessions.getById(id), id created or not: for a stored session the method
\* goes on to this.participants.getBySession, and `this`, the sessions
\* object, has no participants property, so the call rejects with a TypeError
SessionsGetById ==
    /\ \E id \in 1..nextId :
          response' =
              <<[call |-> "getById", id |-> id,
                 outcome |-> IF id \in Ids(storedSessions) THEN "threw" ELSE "null"]>>
    /\ UNCHANGED <<serviceType, storedSessions, storedParticipants, storedItems,
                   storedPaymentMethods, nextId>>
    /\ UNCHANGED <<sessionVars, taxVars, pageVars, homeVars, authVars, payVars>>

\* sessions.delete(id): the filtered sessions are written, then
\* this.participants.deleteBySession rejects the call in the same way, with
\* the three clean-up calls not made
SessionsDelete ==
    /\ \E id \in Ids(storedSessions) :
          /\ storedSessions' = WithoutId(storedSessions, id)
          /\ response' = <<[call |-> "delete", id |-> id, outcome |-> "threw"]>>
    /\ UNCHANGED <<serviceType, storedParticipants, storedItems, storedPaymentMethods,
                   nextId>>
    /\ UNCHANGED <<sessionVars, taxVars, pageVars, homeVars, authVars, payVars>>

NextStore ==
    \/ SessionsCreate
    \/ ParticipantsAdd
    \/ ParticipantsRemove
    \/ ItemsAdd
    \/ ItemsRemove
    \/ PaymentMethodsAdd
    \/ SessionsGetById
    \/ SessionsDelete

SpecStore == InitStore /\ [][NextStore]_vars

\* ------------------------------------------------------------ AuthProvider
\* user 0 is nobody (null)
Users == 1..MaxUsers

\* what an auth step leaves alone
authFrame ==
    <<sessionVars, taxVars, storeVars, pageVars, sessionName, createCalls,
      navigatedTo, homeToast, payVars>>

\* HomePage's effect on [user, showAuthModal]: the dialog closes as soon as
\* somebody is signed in
AuthModalWith(u) == IF u # 0 THEN FALSE ELSE showAuthModal

\* the effect has run: getInitialSession is awaiting supabase.auth.getSession
InitAuth ==
    /\ SessionIdle /\ TaxIdle /\ StoreIdle /\ PageIdle /\ HomeIdle /\ PayIdle
    /\ serviceType \in {"localStorage", "supabase"}
    /\ loading = TRUE
    /\ inFlight = <<"getInitialSession">>

\* inFlight without its k-th call
Settle(k) == [i \in 1..(Len(inFlight) - 1) |-> IF i < k THEN inFlight[i] ELSE inFlight[i + 1]]

\* getSession settles: the session's user is set unless it failed, and the
\* finally block clears loading
GetInitialSession ==
    /\ \E k \in 1..Len(inFlight) :
          /\ inFlight[k] = "getInitialSession"
          /\ inFlight' = Settle(k)
    /\ \E u \in {0} \cup Users, error \in BOOLEAN :
          user' = IF error THEN user ELSE u
    /\ showAuthModal' = AuthModalWith(user')
    /\ loading' = FALSE
    /\ UNCHANGED authFrame

\* the onAuthStateChange callback: setSession, setUser, setLoading(false)
OnAuthStateChange ==
    /\ \E u \in {0} \cup Users : user' = u
    /\ showAuthModal' = AuthModalWith(user')
    /\ loading' = FALSE
    /\ UNCHANGED <<inFlight, authFrame>>

\* the part every auth call runs before its await: setLoading(true)
BeginCall(call) ==
    /\ Len(inFlight) < MaxInFlight
    /\ loading' = TRUE
    /\ inFlight' = Append(inFlight, call)
    /\ UNCHANGED <<user, showAuthModal, authFrame>>

SignUp == BeginCall("signUp")

SignIn == BeginCall("signIn")

SignInWithProvider == BeginCall("signInWithProvider")

SignOut == BeginCall("signOut")

UpdateProfile == BeginCall("updateProfile")

AuthCalls == {"signUp", "signIn", "signInWithProvider", "signOut", "updateProfile"}

\* an awaited auth call settles, with or without error: its finally block
\* runs setLoading(false)
CallSettles ==
    /\ \E k \in 1..Len(inFlight) :
          /\ inFlight[k] \in AuthCalls
          /\ inFlight' = Settle(k)
    /\ loading' = FALSE
    /\ UNCHANGED <<user, showAuthModal, authFrame>>

NextAuth ==
    \/ GetInitialSession
    \/ OnAuthStateChange
    \/ SignUp
    \/ SignIn
    \/ SignInWithProvider
    \/ SignOut
    \/ UpdateProfile
    \/ CallSettles

SpecAuth == InitAuth /\ [][NextAuth]_vars

\* ---------------------------------------------------------------- HomePage
\* the bill names typed: nothing, blanks only, a name
SessionNames == {"", "  ", "Dinner"}

\* String.prototype.trim on those
Trim(name) == IF name = "  " THEN "" ELSE name

\* what a HomePage step leaves alone
homeFrame == <<sessionVars, taxVars, pageVars, authVars, payVars>>

InitHome ==
    /\ SessionIdle /\ TaxIdle /\ StoreIdle /\ PageIdle /\ HomeIdle /\ PayIdle
    /\ serviceType \in {"localStorage", "supabase"}
    /\ loading = TRUE
    /\ inFlight = <<"getInitialSession">>

\* onChange of the bill-name input
SetSessionName ==
    /\ \E name \in SessionNames : sessionName' = name
    /\ UNCHANGED <<user, createCalls, navigatedTo, showAuthModal, homeToast>>
    /\ UNCHANGED <<storeVars, homeFrame>>

\* the Sign In / Sign Up buttons, shown while nobody is signed in
HandleAuthAction ==
    /\ user = 0
    /\ showAuthModal' = TRUE
    /\ UNCHANGED <<user, sessionName, createCalls, navigatedTo, homeToast>>
    /\ UNCHANGED <<storeVars, homeFrame>>

\* sessionService.create as HomePage calls it, with {name, organizerName,
\* userId}: both services read data.organizerId, which HomePage never
\* passes, so the stored organizer is null (0)
CreatedSession(id) == [id |-> id, organizerId |-> 0]

\* handleCreateSession; the submit button is disabled while
\* sessionName.trim() is empty
HandleCreateSession ==
    /\ Trim(sessionName) # ""
    /\ IF user = 0
       THEN /\ homeToast' = "Please sign in to create a session"
            /\ showAuthModal' = TRUE
            /\ UNCHANGED <<createCalls, navigatedTo, storeVars>>
       ELSE /\ Len(createCalls) < MaxCreateCalls
            /\ Len(storedSessions) < MaxSessions
            /\ nextId + 1 <= MaxIds
            /\ \E failed \in BOOLEAN :
                  IF failed
                  THEN /\ createCalls' =
                            Append(createCalls,
                                   [name |-> Trim(sessionName), userId |-> user,
                                    result |-> <<>>])
                       /\ homeToast' = "Failed to create session. Please try again."
                       /\ UNCHANGED <<navigatedTo, storeVars>>
                  ELSE /\ createCalls' =
                            Append(createCalls,
                                   [name |-> Trim(sessionName), userId |-> user,
                                    result |-> <<nextId>>])
                       /\ storedSessions' = Append(storedSessions, CreatedSession(nextId))
                       /\ storedParticipants' =
                            Append(storedParticipants, NewParticipant(nextId + 1, nextId))
                       /\ nextId' = nextId + 2
                       /\ response' = <<>>
                       /\ navigatedTo' = <<nextId>>
                       /\ homeToast' = "Session created successfully!"
                       /\ UNCHANGED <<serviceType, storedItems, storedPaymentMethods>>
            /\ UNCHANGED showAuthModal
    /\ UNCHANGED <<user, sessionName>>
    /\ UNCHANGED homeFrame

\* the database service's getByUser(userId), an alias of getByOrganizer:
\* the sessions whose organizer_id is userId
SessionsGetByUser ==
    /\ serviceType = "supabase"
    /\ \E userId \in Users :
          response' =
              <<[call |-> "getByUser", id |-> userId, outcome |-> "sessions",
                 sessions |-> Ids(SelectSeq(storedSessions,
                                            LAMBDA r : r.organizerId = userId))]>>
    /\ UNCHANGED <<serviceType, storedSessions, storedParticipants, storedItems,
                   storedPaymentMethods, nextId>>
    /\ UNCHANGED <<homeVars, homeFrame>>

NextHome ==
    \/ GetInitialSession
    \/ OnAuthStateChange
    \/ SetSessionName
    \/ HandleAuthAction
    \/ HandleCreateSession
    \/ SessionsGetByUser

SpecHome == InitHome /\ [][NextHome]_vars

\* ------------------------------------------------------------- SessionPage
\* the route's sessionId: the session HomePage created and navigated to
PageSessionId == 1

\* what a SessionPage step leaves alone
pageFrame == <<sessionVars, taxVars, homeVars, authVars, payVars>>

\* HomePage has created session 1 with its organizer as participant 2 and
\* navigated to /session/1; SessionPage is mounted and has not loaded yet
InitPage ==
    /\ SessionIdle /\ TaxIdle /\ PageIdle /\ PayIdle
    /\ serviceType \in {"localStorage", "supabase"}
    /\ storedSessions = <<CreatedSession(PageSessionId)>>
    /\ storedParticipants = <<NewParticipant(2, PageSessionId)>>
    /\ storedItems = <<>>
    /\ storedPaymentMethods = <<>>
    /\ nextId = 3
    /\ response = <<>>
    /\ user \in Users
    /\ sessionName = "Dinner"
    /\ createCalls = <<[name |-> "Dinner", userId |-> user, result |-> <<PageSessionId>>]>>
    /\ navigatedTo = <<PageSessionId>>
    /\ showAuthModal = FALSE
    /\ homeToast = "Session created successfully!"
    /\ loading = FALSE
    /\ inFlight = <<>>

\* the id lists of the page's session
PageParticipantIds == Ids(pageSession[1].participants)

\* loadSession: the database service returns the session with its
\* participants and items; the local service throws (it reaches its sibling
\* services through this), the page keeps session null and shows the error
LoadSession ==
    /\ IF serviceType = "supabase"
       THEN /\ pageSession' =
                  <<[id |-> PageSessionId,
                     participants |-> OfSession(storedParticipants, PageSessionId),
                     items |-> OfSession(storedItems, PageSessionId)]>>
            /\ response' = <<[call |-> "getById", id |-> PageSessionId,
                              outcome |-> "session"]>>
       ELSE /\ response' = <<[call |-> "getById", id |-> PageSessionId,
                              outcome |-> "threw"]>>
            /\ UNCHANGED pageSession
    /\ UNCHANGED <<serviceType, storedSessions, storedParticipants, storedItems,
                   storedPaymentMethods, nextId, addCalls>>
    /\ UNCHANGED pageFrame

\* handleAddParticipant with a name typed; the handlers below are rendered
\* only once a session is loaded
HandleAddParticipant ==
    /\ pageSession # <<>>
    /\ Len(storedParticipants) < MaxStoredParticipants
    /\ nextId <= MaxIds
    /\ LET participant == NewParticipant(nextId, PageSessionId)
       IN  /\ storedParticipants' = Append(storedParticipants, participant)
           /\ pageSession' =
                 <<[pageSession[1] EXCEPT !.participants = Append(@, participant)]>>
    /\ nextId' = nextId + 1
    /\ response' = <<>>
    /\ UNCHANGED <<serviceType, storedSessions, storedItems, storedPaymentMethods,
                   addCalls>>
    /\ UNCHANGED pageFrame

\* participantService.remove on the items table: the database cascades,
\* the local arrays do not
ItemsAfterParticipantRemoval(participantId) ==
    IF serviceType = "supabase" THEN CascadeItems(storedItems, participantId)
    ELSE storedItems

\* handleRemoveParticipant: the store removes, the page filters its
\* participants and nothing else
HandleRemoveParticipant ==
    /\ pageSession # <<>>
    /\ \E participantId \in PageParticipantIds :
          /\ storedParticipants' = WithoutId(storedParticipants, participantId)
          /\ storedItems' = ItemsAfterParticipantRemoval(participantId)
          /\ pageSession' =
                <<[pageSession[1] EXCEPT !.participants = WithoutId(@, participantId)]>>
    /\ response' = <<>>
    /\ UNCHANGED <<serviceType, storedSessions, storedPaymentMethods, nextId, addCalls>>
    /\ UNCHANGED pageFrame

\* an itemService.add call as the page issues it; paidBy 0 is ''
AddCall(by, amount, paidBy, sharedBy) ==
    [by |-> by, totalAmount |-> amount, paidBy |-> paidBy, sharedBy |-> sharedBy]

\* the database service's add refuses amount <= 0 before inserting, and the
\* insert fails on a paid_by that is no participants row
ItemInserted(amount, paidBy) ==
    serviceType = "supabase" => (amount > 0 /\ paidBy \in Ids(storedParticipants))

\* the bill_item_participants insert fails as a whole on an id that is no
\* participants row; the bill_items row is in by then
SharedByInserted(sharedBy) ==
    serviceType = "supabase" => SeqToSet(sharedBy) \subseteq Ids(storedParticipants)

\* the amounts typed into the item form: none or zero, and RM 30
FormAmounts == {0} \cup StoreAmounts

\* handleAddItem: the form is refused with a toast unless amount, paidBy and
\* sharedBy are filled in and the amount is positive
HandleAddItem ==
    /\ pageSession # <<>>
    /\ Len(storedItems) < MaxStoredItems
    /\ Len(addCalls) < MaxAddCalls
    /\ nextId <= MaxIds
    /\ \E amount \in FormAmounts, newItemPaidBy \in {0} \cup PageParticipantIds,
          newItemSharedBy \in {<<>>} \cup SharedByOf(PageParticipantIds),
          newItemHasSst \in BOOLEAN :
          IF amount = 0 \/ newItemPaidBy = 0 \/ Len(newItemSharedBy) = 0
          THEN UNCHANGED <<storeVars, pageVars>>
          ELSE LET item == StoredItem(nextId, PageSessionId, amount, newItemPaidBy,
                                      newItemSharedBy, newItemHasSst)
               IN  /\ addCalls' =
                         Append(addCalls, AddCall("handleAddItem", amount,
                                                  newItemPaidBy, newItemSharedBy))
                   /\ response' = <<>>
                   /\ IF ~ItemInserted(amount, newItemPaidBy)
                      THEN UNCHANGED <<storedItems, nextId, pageSession>>
                      ELSE IF ~SharedByInserted(newItemSharedBy)
                      THEN /\ storedItems' =
                                Append(storedItems, [item EXCEPT !.sharedBy = <<>>])
                           /\ nextId' = nextId + 1
                           /\ UNCHANGED pageSession
                      ELSE /\ storedItems' = Append(storedItems, item)
                           /\ nextId' = nextId + 1
                           /\ pageSession' =
                                <<[pageSession[1] EXCEPT !.items = Append(@, item)]>>
                   /\ UNCHANGED <<serviceType, storedSessions, storedParticipants,
                                  storedPaymentMethods>>
    /\ UNCHANGED pageFrame

\* handleRemoveItem
HandleRemoveItem ==
    /\ pageSession # <<>>
    /\ \E itemId \in Ids(pageSession[1].items) :
          /\ storedItems' = WithoutId(storedItems, itemId)
          /\ pageSession' = <<[pageSession[1] EXCEPT !.items = WithoutId(@, itemId)]>>
    /\ response' = <<>>
    /\ UNCHANGED <<serviceType, storedSessions, storedParticipants,
                   storedPaymentMethods, nextId, addCalls>>
    /\ UNCHANGED pageFrame

\* what the receipt scanner hands over: parseReceiptText keeps only lines
\* with amount > 0
ExtractedItems ==
    UNION {[1..n -> [amount : StoreAmounts, hasSST : BOOLEAN]] : n \in 1..MaxReceiptItems}

\* the for loop of handleReceiptItems from item k on: each item is sent
\* with paidBy = the first participant of the session (or '') and sharedBy
\* = all of them; the first add that throws ends the loop
RECURSIVE ReceiptLoop(_, _, _)
ReceiptLoop(extractedItems, k, run) ==
    IF k > Len(extractedItems) THEN run
    ELSE LET ps == pageSession[1].participants
             paidBy == IF Len(ps) > 0 THEN ps[1].id ELSE 0
             sharedBy == [i \in 1..Len(ps) |-> ps[i].id]
             amount == extractedItems[k].amount
             item == StoredItem(run.nextId, PageSessionId, amount, paidBy, sharedBy,
                                extractedItems[k].hasSST)
             called == [run EXCEPT !.addCalls =
                           Append(@, AddCall("handleReceiptItems", amount, paidBy,
                                             sharedBy))]
         IN  IF ~ItemInserted(amount, paidBy) THEN called
             ELSE IF ~SharedByInserted(sharedBy)
             THEN [called EXCEPT !.storedItems =
                                     Append(@, [item EXCEPT !.sharedBy = <<>>]),
                                 !.nextId = @ + 1]
             ELSE ReceiptLoop(extractedItems, k + 1,
                              [called EXCEPT !.storedItems = Append(@, item),
                                             !.pageItems = Append(@, item),
                                             !.nextId = @ + 1])

\* handleReceiptItems: no check of its own before the calls
HandleReceiptItems ==
    /\ pageSession # <<>>
    /\ \E extractedItems \in ExtractedItems :
          /\ Len(storedItems) + Len(extractedItems) <= MaxStoredItems
          /\ Len(addCalls) + Len(extractedItems) <= MaxAddCalls
          /\ nextId + Len(extractedItems) - 1 <= MaxIds
          /\ LET run == ReceiptLoop(extractedItems, 1,
                                    [addCalls |-> addCalls, storedItems |-> storedItems,
                                     pageItems |-> pageSession[1].items,
                                     nextId |-> nextId])
             IN  /\ addCalls' = run.addCalls
                 /\ storedItems' = run.storedItems
                 /\ nextId' = run.nextId
                 /\ pageSession' = <<[pageSession[1] EXCEPT !.items = run.pageItems]>>
    /\ response' = <<>>
    /\ UNCHANGED <<serviceType, storedSessions, storedParticipants, storedPaymentMethods>>
    /\ UNCHANGED pageFrame

NextPage ==
    \/ LoadSession
    \/ HandleAddParticipant
    \/ HandleRemoveParticipant
    \/ HandleAddItem
    \/ HandleRemoveItem
    \/ HandleReceiptItems

SpecPage == InitPage /\ [][NextPage]_vars

\* ================================================================= claims
NetSum(bs) == SumSeq([i \in 1..Len(bs) |-> bs[i].netAmount])

\* netAmount of the balance the transfer end `id` names
NetOf(id) == (CHOOSE b \in SeqToSet(balances) : b.participantId = id).netAmount

\* every item names a participant as payer and a non-empty list of
\* participants as sharers
ItemsReferenceParticipants ==
    \A i \in 1..Len(items) :
        /\ items[i].paidBy \in SeqToSet(participants)
        /\ items[i].sharedBy # <<>>
        /\ SeqToSet(items[i].sharedBy) \subseteq SeqToSet(participants)

\* C1: for every session whose items reference only session participants,
\* the balances calculateSession returns pass validateCalculation: owed and
\* paid totals agree within 0.01 and the net amounts sum to 0 within 0.01.
C1_BalancesValidate ==
    (pc = "calculated" /\ ItemsReferenceParticipants) => validateCalculation(balances)

\* C2: in every transfer emitted, `from` has netAmount > 0 (owes money) and
\* `to` has netAmount < 0 (is owed money).
C2_FromOwesToIsOwed ==
    \A i \in 1..Len(instructions) :
        NetOf(instructions[i].from) > 0 /\ NetOf(instructions[i].to) < 0

\* totalOwed of a participant when every item's service charge is divided
\* among all session participants, sharers of the item or not
OwedWithServiceChargeForAll(participant) ==
    SumSeq([i \in 1..Len(items) |->
        LET c == calculateItemContribution(participant, items[i], Len(participants), taxConfig)
        IN  c.contribution + c.sstContribution
            + roundToTwoDecimals(calculateServiceCharge(items[i].totalAmount, taxConfig),
                                 Len(participants))])

\* C3: under applyServiceChargeToAll every participant, sharer of the item or
\* not, is charged serviceCharge / participants.length for each item.
C3_ServiceChargeToAll ==
    (pc = "calculated" /\ taxConfig.applyServiceChargeToAll /\ Len(items) > 0) =>
        \A i \in 1..Len(balances) :
            balances[i].totalOwed =
                roundToTwoDecimals(OwedWithServiceChargeForAll(participants[i]), 1)

\* Alice(1), Bob(2), Charlie(3); Pizza 30 paid by Alice shared by all, no SST;
\* Drinks 15 paid by Bob shared by Bob and Charlie, with SST
C4_Scenario ==
    /\ pc = "calculated"
    /\ participants = <<1, 2, 3>>
    /\ items = <<NewItem(3000 * SenUnits, 1, <<1, 2, 3>>, FALSE),
                 NewItem(1500 * SenUnits, 2, <<2, 3>>, TRUE)>>

\* C4: in that scenario Alice paid 30, owes 10, balance 20; Bob paid 15.90,
\* owes 17.95, balance -2.05; Charlie paid 0, owes 17.95, balance -17.95.
C4_LegacyScenarioShares ==
    C4_Scenario =>
        /\ balances[1].totalPaid = 3000 * SenUnits
        /\ balances[1].totalOwed = 1000 * SenUnits
        /\ balances[1].netAmount = 2000 * SenUnits
        /\ balances[2].totalPaid = 1590 * SenUnits
        /\ balances[2].totalOwed = 1795 * SenUnits
        /\ balances[2].netAmount = -205 * SenUnits
        /\ balances[3].totalPaid = 0
        /\ balances[3].totalOwed = 1795 * SenUnits
        /\ balances[3].netAmount = -1795 * SenUnits

\* the most groups the balances indexed by S split into, each summing to zero
RECURSIVE MaxZeroSumGroups(_, _)
MaxZeroSumGroups(bs, S) ==
    IF S = {} THEN 0
    ELSE LET x == CHOOSE i \in S : TRUE
             groups == {T \in SUBSET S :
                           x \in T /\ SumSeq([k \in 1..Len(SetToSeq(T)) |->
                                                bs[SetToSeq(T)[k]].netAmount]) = 0}
             counts == {1 + MaxZeroSumGroups(bs, S \ T) : T \in groups}
         IN  CHOOSE m \in counts : \A c \in counts : c <= m

NonZero(bs) == {i \in 1..Len(bs) : bs[i].netAmount # 0}

\* the fewest positive transfers that settle balances summing to zero
MinTransferCount(bs) == Cardinality(NonZero(bs)) - MaxZeroSumGroups(bs, NonZero(bs))

TotalTransferred == SumSeq([i \in 1..Len(instructions) |-> instructions[i].amount])

TotalPositive ==
    SumSeq([i \in 1..Len(balances) |->
               IF balances[i].netAmount > 0 THEN balances[i].netAmount ELSE 0])

\* C6: for balances summing to zero the emitted amounts sum to the total of
\* the positive netAmounts within 0.01.
C6_TotalTransferred ==
    (pc = "returned" /\ NetSum(balances) = 0) =>
        Abs(TotalTransferred - TotalPositive) <= SenUnits

\* C7 (as stated): on the balances of any session at most
\* participants.length - 1 transfers are emitted.
C7_AtMostParticipantsMinusOne ==
    pc \in {"loop", "returned"} => Len(instructions) <= Len(participants) - 1

\* C7 (amended): on the balances of any session with at least one
\* participant at most participants.length - 1 transfers are emitted, and
\* every loop iteration removes a participant from the debtor or the creditor
\* queue, so the loop ends.
C7_TerminatesWithinBound ==
    /\ [](((pc \in {"loop", "returned"}) /\ Len(participants) >= 1) =>
            Len(instructions) <= Len(participants) - 1)
    /\ [][(pc = "loop" /\ pc' = "loop") =>
            Len(debtors') + Len(creditors') < Len(debtors) + Len(creditors)]_<<debtors, creditors, instructions>>

C7_Witness ==
    /\ pc = "returned"
    /\ Len(items) > 0
    /\ Len(participants) = 3
    /\ Len(instructions) = 2

\* C8: every emitted transfer has amount > 0 after rounding to 2 decimals,
\* for whole-sen netAmounts.
C8_PositiveAmounts ==
    \A i \in 1..Len(instructions) : instructions[i].amount > 0

C8_Witness ==
    /\ pc = "returned"
    /\ Len(instructions) >= 3

\* C9: every reported netAmount equals the reported totalOwed minus the
\* reported totalPaid of the same balance.
C9_NetIsOwedMinusPaid ==
    pc = "calculated" =>
        \A i \in 1..Len(balances) :
            balances[i].netAmount = balances[i].totalOwed - balances[i].totalPaid

\* sstAmount(item): totalAmount x SST rate when hasSst, 0 otherwise
SstOf(item) == IF item.hasSst THEN (item.totalAmount * taxConfig.sstRate) \div 100 ELSE 0

PaidAsClaimed(participant) ==
    SumSeq([i \in 1..Len(items) |->
        IF items[i].paidBy = participant
        THEN items[i].totalAmount + SstOf(items[i])
             + calculateServiceCharge(items[i].totalAmount, taxConfig)
        ELSE 0])

\* C10: for every item P paid, totalAmount + sstAmount(item) +
\* serviceCharge(item) is added to P's totalPaid, sharer of the item or not.
C10_PayerCreditedInFull ==
    (pc = "calculated" /\ Len(items) > 0) =>
        \A i \in 1..Len(balances) :
            balances[i].totalPaid = roundToTwoDecimals(PaidAsClaimed(participants[i]), 1)

\* C11: when the session has no participants or no items, calculateSession
\* returns one balance per given participant with totalOwed, totalPaid and
\* netAmount 0, and a summary whose totals and itemCount are all 0.
C11_EmptySessionZeroResult ==
    (pc = "calculated" /\ (Len(participants) = 0 \/ Len(items) = 0)) =>
        /\ Len(balances) = Len(participants)
        /\ \A i \in 1..Len(balances) :
              /\ balances[i].participantId = participants[i]
              /\ balances[i].totalOwed = 0
              /\ balances[i].totalPaid = 0
              /\ balances[i].netAmount = 0
        /\ summary.totalAmount = 0
        /\ summary.totalSst = 0
        /\ summary.totalServiceCharge = 0
        /\ summary.itemCount = 0

C11_Witness ==
    /\ pc = "calculated"
    /\ Len(participants) = 0
    /\ Len(items) > 0
    /\ summary.itemCount = 0

RECURSIVE Dedup(_)
\* the list without the later occurrences of an id it already holds
Dedup(s) ==
    IF s = <<>> THEN <<>>
    ELSE LET front == Dedup(SubSeq(s, 1, Len(s) - 1))
             last == s[Len(s)]
         IN  IF includes(front, last) THEN front ELSE Append(front, last)

\* C16: calculateSession returns the same balances for an item whose
\* sharedBy lists a participant id more than once as for the same item with
\* the duplicate ids removed.
C16_DuplicatesCollapse ==
    pc = "calculated" =>
        balances =
            calculateSession(
                participants,
                [i \in 1..Len(items) |-> [items[i] EXCEPT !.sharedBy = Dedup(@)]],
                taxConfig).participants

\* totalOwed of a participant over the items somebody shares
OwedOverSharedItems(participant) ==
    LET shared == SelectSeq(items, LAMBDA item : item.sharedBy # <<>>)
    IN  roundToTwoDecimals(
            SumSeq([i \in 1..Len(shared) |->
                       OwedForItem(participant, shared[i], Len(participants), taxConfig)]),
            1)

\* C17: an item whose sharedBy is empty adds 0 to every participant's
\* totalOwed and produces no itemBreakdown entry; the calculation of a
\* session holding such an item completes.
C17_EmptySharedByOwesNothing ==
    (pc = "calculated" /\ Len(participants) > 0 /\ Len(items) > 0) =>
        \A i \in 1..Len(balances) :
            /\ balances[i].totalOwed = OwedOverSharedItems(participants[i])
            /\ \A k \in 1..Len(balances[i].itemBreakdown) :
                  items[balances[i].itemBreakdown[k].itemId].sharedBy # <<>>

C17_Witness ==
    /\ pc = "calculated"
    /\ Len(participants) > 0
    /\ \E i \in 1..Len(items) : items[i].sharedBy = <<>>

\* the calls of applyMalaysianRounding on a non-negative whole-sen amount
WholeSenCalls ==
    {k \in 1..Len(rounding) :
        rounding[k].amount >= 0 /\ rounding[k].amount % SenUnits = 0}

\* C12: for every non-negative amount in whole sen applyMalaysianRounding
\* returns the multiple of 5 sen nearest to it: last sen digit 0-2 goes down
\* to the ten-sen base, 3-7 to base + 5, 8-9 to base + 10; the result is a
\* multiple of 0.05 and differs from the input by at most 0.025.
C12_NearestFiveSen ==
    \A k \in WholeSenCalls :
        LET amount == rounding[k].amount
            result == rounding[k].result
            digit == (amount \div SenUnits) % 10
            base == amount - digit * SenUnits
        IN  /\ result % (5 * SenUnits) = 0
            /\ 2 * Abs(result - amount) <= 5 * SenUnits
            /\ \A m \in 0..(2 * MaxRoundingSen) :
                  (m % 5 = 0) => Abs(result - amount) <= Abs(m * SenUnits - amount)
            /\ digit \in 0..2 => result = base
            /\ digit \in 3..7 => result = base + 5 * SenUnits
            /\ digit \in 8..9 => result = base + 10 * SenUnits

C12_Witness ==
    /\ Len(rounding) = 1
    /\ rounding[1].amount = 13 * SenUnits
    /\ rounding[1].result = 15 * SenUnits

\* C13: applyMalaysianRounding is idempotent: handing the result of a call
\* back to it returns that result again, whatever the first amount was.
C13_Idempotent ==
    \A k \in 1..(Len(rounding) - 1) :
        rounding[k + 1].amount = rounding[k].result =>
            rounding[k + 1].result = rounding[k].result

C13_Witness ==
    /\ Len(rounding) = 2
    /\ rounding[1].amount # rounding[1].result
    /\ rounding[1].amount < 0
    /\ rounding[1].amount % SenUnits # 0

\* the items that are not exempt and carry the SST flag
SstItems == {i \in 1..Len(taxItems) : ~taxItems[i].isExempt /\ taxItems[i].hasSST}

\* C14: sstAmount is the 2-decimal rounding of the sum, over non-exempt
\* items with hasSST, of 6% of the amount when the item carries no service
\* charge and 6% of 110% of the amount when it does.
C14_SstPerItem ==
    breakdown # <<>> =>
        breakdown[1].sstAmount =
            roundToSen(
                SumSeq([i \in 1..Len(taxItems) |->
                           IF i \notin SstItems THEN 0
                           ELSE IF taxItems[i].hasServiceCharge
                                THEN taxItems[i].amount * 66
                                ELSE taxItems[i].amount * 60]),
                1000)

C14_Witness ==
    /\ breakdown # <<>>
    /\ \E i \in SstItems : taxItems[i].hasServiceCharge
    /\ \E j \in 1..Len(taxItems) :
          /\ j \notin SstItems
          /\ ~taxItems[j].isExempt
          /\ taxItems[j].hasServiceCharge
    /\ breakdown[1].sstAmount > 0

\* the list with its exempt items taken out
NonExempt(its) == SelectSeq(its, LAMBDA item : ~item.isExempt)

\* C15: an exempt item adds its amount to subtotal and nothing to
\* serviceChargeAmount or sstAmount, whatever its flags; for a list of only
\* exempt items finalTotal is the subtotal under the 5-sen rounding.
C15_ExemptUntaxed ==
    breakdown # <<>> =>
        LET b == breakdown[1]
            taxedOnly == calculateTaxes(NonExempt(taxItems))
        IN  /\ b.subtotal = SumSeq([i \in 1..Len(taxItems) |-> taxItems[i].amount])
            /\ b.serviceChargeAmount = taxedOnly.serviceChargeAmount
            /\ b.sstAmount = taxedOnly.sstAmount
            /\ NonExempt(taxItems) = <<>> =>
                  /\ b.serviceChargeAmount = 0
                  /\ b.sstAmount = 0
                  /\ b.finalTotal = applyMalaysianRounding(b.subtotal, FALSE)

C15_Witness ==
    /\ breakdown # <<>>
    /\ Len(taxItems) > 0
    /\ \A i \in 1..Len(taxItems) :
          taxItems[i].isExempt /\ taxItems[i].hasSST /\ taxItems[i].hasServiceCharge
    /\ breakdown[1].finalTotal # breakdown[1].subtotal

\* C18: two calls of calculateParticipantBalances with equal participants
\* and items return equal results, whatever updateTaxConfig calls on the
\* shared defaultCalculator happen between them.
C18_Stateless ==
    \A i, j \in 1..Len(calls) :
        (calls[i].participants = calls[j].participants
            /\ calls[i].items = calls[j].items) =>
            calls[i].result = calls[j].result

\* SST of an item at the rate the calculator is configured with
SstAtRate(item, cfg) ==
    IF item.hasSst THEN (item.totalAmount * cfg.sstRate) \div 100 ELSE 0

\* totalOwed and totalPaid of a participant when each item's SST is
\* totalAmount x cfg.sstRate
OwedAtRate(participant, its, totalParticipants, cfg) ==
    SumSeq([i \in 1..Len(its) |->
        LET c == calculateItemContribution(participant, its[i], totalParticipants, cfg)
        IN  IF c.contribution > 0
            THEN c.contribution
                 + roundToTwoDecimals(SstAtRate(its[i], cfg), Len(its[i].sharedBy))
                 + c.serviceChargeContribution
            ELSE 0])

PaidAtRate(participant, its, cfg) ==
    SumSeq([i \in 1..Len(its) |->
        IF its[i].paidBy = participant
        THEN its[i].totalAmount + SstAtRate(its[i], cfg)
             + calculateServiceCharge(its[i].totalAmount, cfg)
        ELSE 0])

\* C19: the SST charged for an item with hasSst is totalAmount x the
\* sstRate the calculator is configured with at the call, in what the
\* sharers owe and in what the payer is credited.
C19_SstAtConfiguredRate ==
    \A k \in 1..Len(calls) :
        LET call == calls[k]
            n == Len(call.participants)
        IN  \A i \in 1..Len(call.result.participants) :
                /\ call.result.participants[i].totalOwed =
                       roundToTwoDecimals(
                           OwedAtRate(call.participants[i], call.items, n, call.taxConfig), 1)
                /\ call.result.participants[i].totalPaid =
                       roundToTwoDecimals(
                           PaidAtRate(call.participants[i], call.items, call.taxConfig), 1)

\* C20: after any sequence of items.add and items.update calls every
\* stored item has sstAmount = (hasSst ? totalAmount x 0.06 : 0) and
\* perPersonAmount = totalAmount / |sharedBy|.
C20_DerivedFieldsRecomputed ==
    \A i \in 1..Len(items) :
        /\ items[i].sstAmount =
               (IF items[i].hasSst THEN (items[i].totalAmount * 6) \div 100 ELSE 0)
        /\ items[i].perPersonAmount.divisor # 0
        /\ items[i].perPersonAmount.dividend * Len(items[i].sharedBy) =
               items[i].totalAmount * items[i].perPersonAmount.divisor

\* the balances calculateSession computes for the stored session
Recomputed(sessionId) ==
    LET members == OfSession(storedParticipants, sessionId)
    IN  calculateSession([i \in 1..Len(members) |-> members[i].id],
                         OfSession(storedItems, sessionId), taxConfig).participants

\* C21: after any sequence of participant and item operations each stored
\* participant's totalOwed, totalPaid and netAmount equal the values
\* calculateSession computes from the session's current items.
C21_StoredBalancesCurrent ==
    \A k \in 1..Len(storedParticipants) :
        LET p == storedParticipants[k]
        IN  \A i \in 1..Len(Recomputed(p.sessionId)) :
                LET b == Recomputed(p.sessionId)[i]
                IN  b.participantId = p.id =>
                        /\ p.totalOwed = b.totalOwed
                        /\ p.totalPaid = b.totalPaid
                        /\ p.netAmount = b.netAmount

\* C22: in localStorage mode a step that removes a participant removes only
\* that participant: sessions, payment methods and every bill item, those
\* whose paidBy or sharedBy name the removed id included, stay as they were
\* in storage and in the page's session state.
C22_RemoveLeavesItems ==
    [][(serviceType = "localStorage"
            /\ \E id \in Ids(storedParticipants) :
                  storedParticipants' = WithoutId(storedParticipants, id))
        => /\ storedItems' = storedItems
           /\ storedSessions' = storedSessions
           /\ storedPaymentMethods' = storedPaymentMethods
           /\ pageSession' = pageSession]_storeVars

C22_Witness ==
    /\ serviceType = "localStorage"
    /\ \E k \in 1..Len(storedItems) :
          /\ storedItems[k].paidBy \notin Ids(storedParticipants)
          /\ \E x \in SeqToSet(storedItems[k].sharedBy) : x \notin Ids(storedParticipants)

\* C26: in localStorage mode, after sessionService.delete(id) storage holds
\* no session with that id and no participant, item or payment method whose
\* sessionId is id.
C26_DeleteCleansUp ==
    (response # <<>> /\ response[1].call = "delete") =>
        LET id == response[1].id
        IN  /\ id \notin Ids(storedSessions)
            /\ OfSession(storedParticipants, id) = <<>>
            /\ OfSession(storedItems, id) = <<>>
            /\ OfSession(storedPaymentMethods, id) = <<>>

\* C27: in localStorage mode sessionService.getById(id) resolves to the
\* session for an id that was created and not deleted, and to null only for
\* an id that was never created or was deleted.
C27_GetByIdRoundTrips ==
    (response # <<>> /\ response[1].call = "getById") =>
        response[1].outcome =
            (IF response[1].id \in Ids(storedSessions) THEN "session" ELSE "null")

\* the names on a list of calculatePaymentInstructions entries
Names(entries) == {entries[k].name : k \in 1..Len(entries)}

\* C28: for the same balances, every transfer of generatePaymentInstructions
\* goes from a participant calculatePaymentInstructions lists in toPay to a
\* participant it lists in toReceive.
C28_SameDirection ==
    payment # <<>> =>
        \A k \in 1..Len(instructions) :
            /\ instructions[k].from \in Names(payment[1].toPay)
            /\ instructions[k].to \in Names(payment[1].toReceive)

\* C30: loading is true whenever a signUp, signIn, signInWithProvider,
\* signOut or updateProfile call is still awaited, and false once nothing is
\* awaited.
C30_LoadingWhileInFlight ==
    /\ (\E k \in 1..Len(inFlight) : inFlight[k] \in AuthCalls) => loading
    /\ inFlight = <<>> => ~loading

\* C24: a submit of the create-session form by a guest (no user signed in)
\* with a non-empty bill name issues sessionService.create with that name
\* and no userId, and navigates to the new session.
C24_GuestCreatesSession ==
    [][(HandleCreateSession /\ user = 0) =>
          /\ Len(createCalls') = Len(createCalls) + 1
          /\ createCalls'[Len(createCalls')].name = Trim(sessionName)
          /\ createCalls'[Len(createCalls')].userId = 0
          /\ navigatedTo' = createCalls'[Len(createCalls')].result]_vars

\* C25: with the database service, getByUser(user.id) returns every session
\* that user created through the home page.
C25_HistoryHoldsCreated ==
    (serviceType = "supabase" /\ response # <<>> /\ response[1].call = "getByUser") =>
        \A k \in 1..Len(createCalls) :
            (createCalls[k].userId = response[1].id /\ createCalls[k].result # <<>>)
                => createCalls[k].result[1] \in response[1].sessions

\* C23: every itemService.add call the session page issues, from
\* handleAddItem or handleReceiptItems, carries totalAmount > 0, a non-empty
\* paidBy and a non-empty sharedBy.
C23_AddCallsValidated ==
    \A k \in 1..Len(addCalls) :
        /\ addCalls[k].totalAmount > 0
        /\ addCalls[k].paidBy # 0
        /\ Len(addCalls[k].sharedBy) > 0

\* C29: with the database service the page's participants and items are
\* the participants and bill items the database holds for the session.
C29_PageMatchesDatabase ==
    (serviceType = "supabase" /\ pageSession # <<>>) =>
        /\ pageSession[1].participants = OfSession(storedParticipants, PageSessionId)
        /\ pageSession[1].items = OfSession(storedItems, PageSessionId)

====
